---- MODULE Spec2Model ----
(***************************************************************************)
(* ChulAutoStock: the daily phase scheduler (main.py, ChulAutoStock) and   *)
(* the position-management state machine (phase4_position.py,              *)
(* phase5_closing.py), with the broker gateway (kis_api.py) as a           *)
(* nondeterministic environment.                                           *)
(*                                                                         *)
(* Time is counted in half minutes (the 30 second sleep of the loop).      *)
(* Prices are integers; percentages are kept as exact fractions.           *)
(***************************************************************************)
EXTENDS Integers, Sequences, FiniteSets, TLC

VARIABLES
  weekday,          \* datetime.now().weekday(), 0 = Monday
  clock,            \* time of day of the next loop iteration, in half minutes
  pc,               \* "loop" while run_forever iterates, "exited" after break
  auth, api,        \* ChulAutoStock.auth / .api present (not None)
  past_data,        \* ChulAutoStock.past_data: codes that have a baseline
  selected_stocks,  \* ChulAutoStock.selected_stocks
  phase4_report,    \* ChulAutoStock.phase4_report
  phase_completed,  \* the keys of ChulAutoStock.phase_completed that are True
  phase2_instance,  \* Phase2Monitoring object, or Absent (no attribute)
  phase4_instance,  \* Phase4Position object, None, or Absent (attribute deleted)
  sleep_announced,  \* hasattr(self, 'sleep_announced')
  last_monitor_time,\* ChulAutoStock.last_monitor_time (time of day) or NoTime
  cache,            \* past_data_cache.json: is it of today, and its data
  sessions,         \* the trading days the process has seen so far
  called,           \* history: the branch the last loop iteration took
  last_orders,      \* history: the orders that iteration sent to the broker
  today,            \* history: what happened today: the SingleShot methods
                    \* that were called, "auth_failed", "late_start", "slept"
  args,             \* a method called on its own: the call and its arguments
  returned          \* a method called on its own: what it returned

vars == <<weekday, clock, pc, auth, api, past_data, selected_stocks,
          phase4_report, phase_completed, phase2_instance, phase4_instance,
          sleep_announced, last_monitor_time, cache, sessions,
          called, last_orders, today, args, returned>>

\* the call of a method on its own, outside the loop of run_forever
bench == <<args, returned>>

engine == <<auth, api, past_data, selected_stocks, phase4_report,
            phase_completed, phase2_instance, phase4_instance>>

-----------------------------------------------------------------------------
(* Bounds *)

\* longest duration of a phase action, in half minutes
MaxDur == 2

\* the universe (KOSPI_100 of AutoStockSetting), in its iteration order
Universe == <<"A", "B">>

\* quotes get_current_price can return before the open (0: no answer)
Phase2Quotes == {0, 101, 103}

\* quotes get_current_price can return while monitoring (-1: no answer,
\* 0: an answer without a usable price)
MonitorQuotes == {-1, 0, 100, 103, 108}

\* get_balance: -1 for a failed call, else the orderable cash
Balances == {-1, 0, 100, 250}

\* the largest quantity get_stock_balance reports for a code
MaxHeld == 1

\* the trading days the process is followed through
MaxSessions == 2

-----------------------------------------------------------------------------
(* Constants of the program *)

HM(h, m) == (h * 60 + m) * 2

RESET_TIME  == 8 * 60 + 28
WAKE_TIME   == 8 * 60 + 29
PHASE1_TIME == 8 * 60 + 30
PHASE2_TIME == 8 * 60 + 35
PHASE3_TIME == 8 * 60 + 58
BUY_TIME    == 8 * 60 + 59
MARKET_OPEN == 9 * 60 + 0
PHASE5_TIME == 9 * 60 + 59
SLEEP_TIME  == 10 * 60 + 0
TRADING_DAYS == {0, 1, 2, 3, 4}

\* the sell thresholds in percent (imported from AutoStockSetting; the values
\* are the ones the comments of _check_sell_conditions give)
PROFIT_TARGET == 4
STOP_LOSS == 0 - 2
\* the band of get_filtered_stocks, in hundredths of a percent
MIN_RATE == 200
MAX_RATE == 400
\* _select_top_stocks keeps scored_stocks[:3]
TOP_N == 3
\* the close of the day before of every code, and the price the broker says
\* a holding was bought at
PriorClose == 100
HeldPrice == 100
\* the price of a code monitor_positions does not ask for
UnaskedQuote == 108
\* time.sleep(60) after an exception, in half minutes
COOLDOWN == 2
\* seconds between two polls of monitor_positions
MONITOR_GAP == 5

\* the first half minute of the day the model follows tick by tick, and the
\* one from which every iteration is the same no-op until the next morning
WindowStart == HM(8, 26)
IdleFrom    == HM(10, 2)
DayLen      == 2880

\* the day of the week and the time of day the process is started at: on a
\* Friday before, inside and after the wake window
Starts == {<<4, WindowStart>>, <<4, WindowStart + 1>>, <<4, HM(8, 29)>>,
           <<4, HM(8, 31)>>, <<4, HM(9, 30)>>}

Absent == [attribute |-> "absent"]
None   == [attribute |-> "None"]
NoTime == 0 - 1
Open         == "Open"          \* status "보유"
ClosedProfit == "ClosedProfit"  \* status "매도완료"
ClosedLoss   == "ClosedLoss"    \* status "손절완료"
NoPos  == [status |-> "NoPos"]
NoCall == [fn |-> "none"]
EmptyReport == [set |-> FALSE]

Codes == {Universe[i] : i \in 1..Len(Universe)}

\* an answer of the environment for the codes asked about, and a default for
\* the codes that were not
Extend(f, default) == [c \in Codes |-> IF c \in DOMAIN f THEN f[c] ELSE default]

Min(a, b) == IF a < b THEN a ELSE b
Max(a, b) == IF a > b THEN a ELSE b

current_time == clock \div 2

\* a trading-day test that takes Saturday for a trading day
is_trading_day_six(d) == d \in TRADING_DAYS \cup {5}

\* date.weekday() in TRADING_DAYS
is_trading_day(d) == d \in TRADING_DAYS

-----------------------------------------------------------------------------
(* Phase 2: quotes, change rate, sort and band filter *)

\* round(n / d, 0) for d > 0, ties to even, as Python's round does
RoundDiv(n, d) ==
  LET q == n \div d
      r == n % d
  IN  IF 2 * r < d THEN q
      ELSE IF 2 * r > d THEN q + 1
      ELSE IF q % 2 = 0 THEN q ELSE q + 1

\* round(((current_price - past_close) / past_close) * 100, 2), in hundredths
\* of a percent
ChangeRate(current_price, past_close) ==
  RoundDiv((current_price - past_close) * 10000, past_close)

\* the volume a quote of the code carries (acml_vol); the traded value
\* (acml_tr_pbmn) is 0 before the open
VolumeOf(code) == IF code = Universe[1] THEN 99 ELSE 999
TradedValue == 0

\* list.sort(key=..., reverse=True) is stable: x goes behind every entry whose
\* key is not smaller
RECURSIVE InsertByRate(_, _)
InsertByRate(x, s) ==
  IF s = <<>> THEN <<x>>
  ELSE IF Head(s).rate >= x.rate THEN <<Head(s)>> \o InsertByRate(x, Tail(s))
  ELSE <<x>> \o s

RECURSIVE SortByRate(_)
SortByRate(s) ==
  IF s = <<>> THEN <<>>
  ELSE InsertByRate(s[Len(s)], SortByRate(SubSeq(s, 1, Len(s) - 1)))

\* the loop of Phase2Monitoring.run over KOSPI_100, from entry i on
RECURSIVE Phase2Collect(_, _, _)
Phase2Collect(i, past, quotes) ==
  IF i > Len(Universe) THEN <<>>
  ELSE LET code == Universe[i]
           rest == Phase2Collect(i + 1, past, quotes)
       IN  IF code \notin past THEN rest
           ELSE IF quotes[code] = 0 THEN rest
           ELSE <<[code  |-> code,
                   close |-> PriorClose,
                   price |-> quotes[code],
                   rate  |-> ChangeRate(quotes[code], PriorClose),
                   vol   |-> VolumeOf(code),
                   val   |-> TradedValue]>> \o rest

\* Phase2Monitoring.run appending to the market_data of the earlier iterations
Phase2RunAccumulating(past, quotes) ==
  IF past = {} THEN <<>>
  ELSE SortByRate((IF phase2_instance = Absent THEN <<>>
                   ELSE phase2_instance.market_data)
                  \o Phase2Collect(1, past, quotes))

\* Phase2Monitoring.run: the new market_data (the old one is dropped)
Phase2Run(past, quotes) ==
  IF past = {} THEN <<>>
  ELSE SortByRate(Phase2Collect(1, past, quotes))

\* the band without its two ends
InBandExclusive(stock) == MIN_RATE < stock.rate /\ stock.rate < MAX_RATE

\* min_rate <= stock['등락률'] <= max_rate
InBand(stock) == MIN_RATE <= stock.rate /\ stock.rate <= MAX_RATE

get_filtered_stocks(market_data) == SelectSeq(market_data, InBand)

-----------------------------------------------------------------------------
(* Phase 3: scoring.  Scores are in hundredths of a point. *)

\* log10(v + 1) for the volumes quotes carry
Log10p1(v) == IF v = 9 THEN 1 ELSE IF v = 99 THEN 2 ELSE IF v = 999 THEN 3 ELSE 0

Clamp(x, lo, hi) == Max(lo, Min(hi, x))

\* _normalize(value, min_val, max_val) * 100, in hundredths
Normalize(value, min_val, max_val) ==
  IF max_val = min_val THEN 5000
  ELSE Clamp(((value - min_val) * 10000) \div (max_val - min_val), 0, 10000)

\* _normalize_log(value, min_val, max_val) * 100, in hundredths
NormalizeLog(value, min_val, max_val) ==
  IF max_val <= min_val \/ value <= 0 THEN 0
  ELSE Normalize(Log10p1(value), Log10p1(min_val), Log10p1(max_val))

get_max_values(stocks) ==
  [vol |-> CHOOSE m \in {stocks[i].vol : i \in 1..Len(stocks)} :
             \A i \in 1..Len(stocks) : stocks[i].vol <= m,
   val |-> CHOOSE m \in {stocks[i].val : i \in 1..Len(stocks)} :
             \A i \in 1..Len(stocks) : stocks[i].val <= m]

\* _get_min_values
get_min_values(stocks) ==
  [vol |-> CHOOSE m \in {stocks[i].vol : i \in 1..Len(stocks)} :
             \A i \in 1..Len(stocks) : stocks[i].vol >= m,
   val |-> CHOOSE m \in {stocks[i].val : i \in 1..Len(stocks)} :
             \A i \in 1..Len(stocks) : stocks[i].val >= m]
Abs(x) == IF x < 0 THEN 0 - x ELSE x

\* scores['거래량증가율'] of one stock of the list, in hundredths
VolumeScore(stock, filtered) ==
  NormalizeLog(stock.vol, get_min_values(filtered).vol,
               get_max_values(filtered).vol)

\* the four sub-scores and the weighted total of one stock of the list
TotalScore(stock, filtered) ==
  LET rateScore == Normalize(stock.rate, 200, 400)
      volScore  == VolumeScore(stock, filtered)
      valScore  == NormalizeLog(stock.val, get_min_values(filtered).val,
                                get_max_values(filtered).val)
      stability == Clamp(10000 - (Abs(stock.rate - 300) * 50), 0, 10000)
  IN  RoundDiv(rateScore * 35 + volScore * 25 + valScore * 20 + stability * 20,
               100)

RECURSIVE InsertByTotal(_, _)
InsertByTotal(x, s) ==
  IF s = <<>> THEN <<x>>
  ELSE IF Head(s).total >= x.total THEN <<Head(s)>> \o InsertByTotal(x, Tail(s))
  ELSE <<x>> \o s

RECURSIVE SortByTotal(_)
SortByTotal(s) ==
  IF s = <<>> THEN <<>>
  ELSE InsertByTotal(s[Len(s)], SortByTotal(SubSeq(s, 1, Len(s) - 1)))

\* _calculate_scores leaving scored_stocks in the order of the input
CalculateScoresUnsorted(filtered) ==
  [i \in 1..Len(filtered) |->
     [code  |-> filtered[i].code,
      price |-> filtered[i].price,
      rate  |-> filtered[i].rate,
      total |-> TotalScore(filtered[i], filtered)]]

\* _calculate_scores on a fresh Phase3Scoring: scored_stocks, sorted
CalculateScores(filtered) ==
  SortByTotal([i \in 1..Len(filtered) |->
     [code  |-> filtered[i].code,
      price |-> filtered[i].price,
      rate  |-> filtered[i].rate,
      total |-> TotalScore(filtered[i], filtered)]])

\* _select_top_stocks keeping one stock only
SelectTopOne(scored) == SubSeq(scored, 1, Min(1, Len(scored)))

\* _select_top_stocks
SelectTop(scored) == SubSeq(scored, 1, Min(TOP_N, Len(scored)))

\* Phase3Scoring(filtered).run()
Phase3Run(filtered) ==
  IF filtered = <<>> THEN <<>> ELSE SelectTop(CalculateScores(filtered))

\* run() on a Phase3Scoring object whose scored_stocks holds what earlier
\* calls left there: _calculate_scores appends to the list and sorts it
Phase3RunOn(scored_stocks, filtered) ==
  IF filtered = <<>>
  THEN [scored_stocks |-> scored_stocks, top_stocks |-> <<>>]
  ELSE LET scored == SortByTotal(scored_stocks \o
                       [i \in 1..Len(filtered) |->
                          [code  |-> filtered[i].code,
                           price |-> filtered[i].price,
                           rate  |-> filtered[i].rate,
                           total |-> TotalScore(filtered[i], filtered)]])
       IN  [scored_stocks |-> scored, top_stocks |-> SelectTop(scored)]

-----------------------------------------------------------------------------
(* Broker gateway *)

\* get_stock_balance: nothing held, or the call failed
NoHoldings == [c \in Codes |-> 0]

Order(side, code, qty, order_type, by, ok) ==
  [side |-> side, code |-> code, qty |-> qty, order_type |-> order_type,
   by |-> by, ok |-> ok]

\* ORD_DVSN of an order at the market price
MARKET == "01"

\* what get_stock_balance may answer: the quantity held per code.  The
\* account is the broker's; it may hold shares from before the session, and
\* an order the broker took may not be filled yet.
StockReports == {[c \in Codes |-> q] : q \in 0..MaxHeld}

-----------------------------------------------------------------------------
(* Phase 4: Phase4Position *)

\* Phase4Position(api) followed by set_target_stocks(top_stocks)
NewPhase4(top_stocks) ==
  [positions     |-> [c \in Codes |-> NoPos],
   target_stocks |-> top_stocks,
   trade_history |-> <<>>]

HasPositions(inst) == \E c \in Codes : inst.positions[c] # NoPos

OpenCodes(inst) == {c \in Codes : inst.positions[c].status = Open}

TargetCodes(inst) ==
  {inst.target_stocks[i].code : i \in 1..Len(inst.target_stocks)}

NewPosition(quantity, price) ==
  [qty |-> quantity, buy |-> price, cur |-> price,
   rate |-> <<0, 1>>, status |-> Open]

\* the quantity rounded to the nearest share
BuyQuantityRounded(per_stock_amount, current_price) ==
  RoundDiv(per_stock_amount, current_price)

\* quantity = per_stock_amount // current_price
BuyQuantity(per_stock_amount, current_price) ==
  per_stock_amount \div current_price

\* the for loop of execute_buy_orders leaving the loop at the first order
\* the broker does not take
RECURSIVE BuyLoopUntilRejected(_, _, _, _, _, _)
BuyLoopUntilRejected(i, targets, per_stock_amount, requote, answer, acc) ==
  IF i > Len(targets) THEN acc
  ELSE
    LET stock == targets[i]
        code  == stock.code
        current_price ==
          IF stock.price <= 0
          THEN (IF requote[code] > 0 THEN requote[code] ELSE 0)
          ELSE stock.price
        quantity == IF current_price > 0
                    THEN BuyQuantity(per_stock_amount, current_price) ELSE 0
        result == answer[code]
        sent == [acc EXCEPT !.orders = Append(acc.orders,
                   Order("buy", code, quantity, MARKET, "execute_buy_orders", result))]
    IN  IF current_price > 0 /\ quantity > 0
        THEN IF result
             THEN BuyLoopUntilRejected(i + 1, targets, per_stock_amount,
                    requote, answer,
                    [sent EXCEPT !.positions[code] =
                                    NewPosition(quantity, current_price),
                                 !.success_count = acc.success_count + 1])
             ELSE sent
        ELSE BuyLoopUntilRejected(i + 1, targets, per_stock_amount, requote,
                                  answer, acc)

\* the for loop of execute_buy_orders from target i on; acc collects the
\* positions, the orders sent and success_count
RECURSIVE BuyLoop(_, _, _, _, _, _)
BuyLoop(i, targets, per_stock_amount, requote, answer, acc) ==
  IF i > Len(targets) THEN acc
  ELSE
    LET stock == targets[i]
        code  == stock.code
        current_price ==
          IF stock.price <= 0
          THEN (IF requote[code] > 0 THEN requote[code] ELSE 0)
          ELSE stock.price
        quantity == IF current_price > 0
                    THEN BuyQuantity(per_stock_amount, current_price) ELSE 0
        result == answer[code]
        acc1 ==
          IF current_price > 0 /\ quantity > 0
          THEN [positions |->
                   IF result
                   THEN [acc.positions EXCEPT
                           ![code] = NewPosition(quantity, current_price)]
                   ELSE acc.positions,
                orders |-> Append(acc.orders,
                   Order("buy", code, quantity, MARKET, "execute_buy_orders", result)),
                success_count |-> acc.success_count + (IF result THEN 1 ELSE 0)]
          ELSE acc
    IN  BuyLoop(i + 1, targets, per_stock_amount, requote, answer, acc1)

\* execute_buy_orders reporting success when it has nothing to buy with
execute_buy_orders_idle_ok(inst, balance, requote, answer) ==
  LET nothing == [inst |-> inst, orders |-> <<>>, success |-> TRUE]
  IN  IF inst.target_stocks = <<>> THEN nothing
      ELSE IF balance = -1 THEN nothing
      ELSE IF balance <= 0 THEN nothing
      ELSE
        LET per_stock_amount == balance \div Len(inst.target_stocks)
            r == BuyLoop(1, inst.target_stocks, per_stock_amount, requote,
                         answer,
                         [positions |-> inst.positions, orders |-> <<>>,
                          success_count |-> 0])
        IN  [inst    |-> [inst EXCEPT !.positions = r.positions],
             orders  |-> r.orders,
             success |-> r.success_count > 0]

\* execute_buy_orders: balance is what get_balance answers (-1: nothing)
execute_buy_orders(inst, balance, requote, answer) ==
  LET nothing == [inst |-> inst, orders |-> <<>>, success |-> FALSE]
  IN  IF inst.target_stocks = <<>> THEN nothing
      ELSE IF balance = -1 THEN nothing
      ELSE IF balance <= 0 THEN nothing
      ELSE
        LET per_stock_amount == balance \div Len(inst.target_stocks)
            r == BuyLoop(1, inst.target_stocks, per_stock_amount, requote,
                         answer,
                         [positions |-> inst.positions, orders |-> <<>>,
                          success_count |-> 0])
        IN  [inst    |-> [inst EXCEPT !.positions = r.positions],
             orders  |-> r.orders,
             success |-> r.success_count > 0]

\* profit_rate >= k and profit_rate <= k for the fraction r[1] / r[2]
RateGE(r, k) == r[1] >= k * r[2]
RateLE(r, k) == r[1] <= k * r[2]

\* ((current_price - buy_price) / buy_price) * 100
ProfitRate(current_price, buy_price) ==
  IF buy_price > 0 /\ current_price # buy_price
  THEN <<(current_price - buy_price) * 100, buy_price>>
  ELSE <<0, 1>>

\* _check_sell_conditions selling only below the stop-loss rate
check_sell_conditions_below(code, position, profit_rate, accepted) ==
  IF RateGE(profit_rate, PROFIT_TARGET)
  THEN [position |-> [position EXCEPT !.status = ClosedProfit],
        orders   |-> <<Order("sell", code, position.qty, MARKET,
                             "monitor_positions", accepted)>>,
        history  |-> IF accepted
                     THEN <<[code |-> code, reason |-> "profit"]>> ELSE <<>>]
  ELSE IF profit_rate[1] < STOP_LOSS * profit_rate[2]
  THEN [position |-> [position EXCEPT !.status = ClosedLoss],
        orders   |-> <<Order("sell", code, position.qty, MARKET,
                             "monitor_positions", accepted)>>,
        history  |-> IF accepted
                     THEN <<[code |-> code, reason |-> "loss"]>> ELSE <<>>]
  ELSE [position |-> position, orders |-> <<>>, history |-> <<>>]

\* _check_sell_conditions with _execute_sell: the status after the check, the
\* order sent (if any) and the trade_history entry (if the order was taken)
check_sell_conditions(code, position, profit_rate, accepted) ==
  IF RateGE(profit_rate, PROFIT_TARGET)
  THEN [position |-> [position EXCEPT !.status = ClosedProfit],
        orders   |-> <<Order("sell", code, position.qty, MARKET,
                             "monitor_positions", accepted)>>,
        history  |-> IF accepted
                     THEN <<[code |-> code, reason |-> "profit"]>> ELSE <<>>]
  ELSE IF RateLE(profit_rate, STOP_LOSS)
  THEN [position |-> [position EXCEPT !.status = ClosedLoss],
        orders   |-> <<Order("sell", code, position.qty, MARKET,
                             "monitor_positions", accepted)>>,
        history  |-> IF accepted
                     THEN <<[code |-> code, reason |-> "loss"]>> ELSE <<>>]
  ELSE [position |-> position, orders |-> <<>>, history |-> <<>>]

\* PollPosition without the check of the status: a position that was sold
\* is polled again
PollPositionAnyStatus(code, position, quote, accepted) ==
  LET skip == [position |-> position, orders |-> <<>>, history |-> <<>>]
  IN  IF quote = -1 THEN skip
      ELSE IF quote <= 0 THEN skip
      ELSE LET profit_rate == ProfitRate(quote, position.buy)
               updated == [position EXCEPT !.cur = quote, !.rate = profit_rate]
           IN  check_sell_conditions(code, updated, profit_rate, accepted)

\* one pass of the body of the for loop of monitor_positions
PollPosition(code, position, quote, accepted) ==
  LET skip == [position |-> position, orders |-> <<>>, history |-> <<>>]
  IN  IF position.status # Open THEN skip
      ELSE IF quote = -1 THEN skip
      ELSE IF quote <= 0 THEN skip
      ELSE LET profit_rate == ProfitRate(quote, position.buy)
               updated == [position EXCEPT !.cur = quote, !.rate = profit_rate]
           IN  check_sell_conditions(code, updated, profit_rate, accepted)

\* the positions monitor_positions takes over from get_stock_balance when it
\* has none of its own (a failed call and an empty list look the same)
AdoptHoldings(inst, stocks) ==
  IF HasPositions(inst) THEN inst
  ELSE [inst EXCEPT !.positions =
          [c \in Codes |-> IF stocks[c] > 0
                           THEN NewPosition(stocks[c], HeldPrice)
                           ELSE NoPos]]

\* the for loop of monitor_positions leaving the loop at the first position
\* it gets no usable quote for
RECURSIVE MonitorLoopUntilNoQuote(_, _, _, _)
MonitorLoopUntilNoQuote(i, inst, quotes, answer) ==
  IF i > Len(Universe) THEN [inst |-> inst, orders |-> <<>>]
  ELSE
    LET code == Universe[i]
        position == inst.positions[code]
    IN  IF position = NoPos
        THEN MonitorLoopUntilNoQuote(i + 1, inst, quotes, answer)
        ELSE IF position.status = Open /\ quotes[code] <= 0
        THEN [inst |-> inst, orders |-> <<>>]
        ELSE
          LET r == PollPosition(code, position, quotes[code], answer[code])
              inst1 == [inst EXCEPT !.positions[code] = r.position,
                                    !.trade_history = @ \o r.history]
              rest == MonitorLoopUntilNoQuote(i + 1, inst1, quotes, answer)
          IN  [inst |-> rest.inst, orders |-> r.orders \o rest.orders]

\* the for loop of monitor_positions over self.positions, from entry i on
RECURSIVE MonitorLoop(_, _, _, _)
MonitorLoop(i, inst, quotes, answer) ==
  IF i > Len(Universe) THEN [inst |-> inst, orders |-> <<>>]
  ELSE
    LET code == Universe[i]
        position == inst.positions[code]
    IN  IF position = NoPos THEN MonitorLoop(i + 1, inst, quotes, answer)
        ELSE
          LET r == PollPosition(code, position, quotes[code], answer[code])
              inst1 == [inst EXCEPT !.positions[code] = r.position,
                                    !.trade_history = @ \o r.history]
              rest == MonitorLoop(i + 1, inst1, quotes, answer)
          IN  [inst |-> rest.inst, orders |-> r.orders \o rest.orders]

\* monitor_positions
monitor_positions(inst, stocks, quotes, answer) ==
  LET inst1 == AdoptHoldings(inst, stocks)
  IN  IF ~HasPositions(inst1) THEN [inst |-> inst1, orders |-> <<>>]
      ELSE MonitorLoop(1, inst1, quotes, answer)

CountReason(history, reason) ==
  Cardinality({i \in 1..Len(history) : history[i].reason = reason})

\* get_daily_report
get_daily_report(inst) ==
  [set    |-> TRUE,
   total  |-> Len(inst.trade_history),
   buys   |-> Len(inst.target_stocks),
   profit |-> CountReason(inst.trade_history, "profit"),
   loss   |-> CountReason(inst.trade_history, "loss")]

-----------------------------------------------------------------------------
(* Phase 5: Phase5Closing *)

\* liquidate_all_positions: one sell order per holding get_stock_balance
\* reports (a failed call and an empty list look the same)
RECURSIVE LiquidateLoop(_, _, _)
LiquidateLoop(i, stocks, answer) ==
  IF i > Len(Universe) THEN <<>>
  ELSE LET code == Universe[i]
           quantity == stocks[code]
       IN  IF quantity <= 0 THEN LiquidateLoop(i + 1, stocks, answer)
           ELSE <<Order("sell", code, quantity, MARKET, "liquidate_all_positions",
                        answer[code])>>
                \o LiquidateLoop(i + 1, stocks, answer)

liquidate_all_positions(stocks, answer) == LiquidateLoop(1, stocks, answer)

-----------------------------------------------------------------------------
(* ChulAutoStock: state after construction *)

\* the methods whose calls the history of the day keeps
SingleShot == {"execute_buy_orders", "phase5_daily_closing"}

\* past_data_cache.json when the process starts: no file, or the file an
\* earlier run wrote on an earlier date, with a baseline for the last code only
NoCache    == [today |-> FALSE, data |-> {}]
StaleCache == [today |-> FALSE, data |-> {Universe[Len(Universe)]}]

Init ==
  /\ \E start \in Starts : weekday = start[1] /\ clock = start[2]
  /\ pc = "loop"
  /\ auth = FALSE
  /\ api = FALSE
  /\ past_data = {}
  /\ selected_stocks = <<>>
  /\ phase4_report = EmptyReport
  /\ phase_completed = {}
  /\ phase2_instance = Absent
  /\ phase4_instance = None
  /\ sleep_announced = FALSE
  /\ last_monitor_time = NoTime
  /\ cache \in {NoCache, StaleCache}
  /\ sessions = IF is_trading_day(weekday) THEN 1 ELSE 0
  /\ called = {}
  /\ last_orders = <<>>
  /\ today = {}
  /\ args = NoCall
  /\ returned = NoCall

-----------------------------------------------------------------------------
(* run_forever: one action per branch of the loop body *)

\* the late start check comparing with the wrong time of the timetable
LateStartCheckAfterClose ==
  current_time > PHASE5_TIME /\ "phase0" \notin phase_completed

\* the late start check of the loop
LateStartCheck == current_time > WAKE_TIME /\ "phase0" \notin phase_completed

\* the iteration gets as far as the time dispatch
Dispatch ==
  /\ pc = "loop"
  /\ is_trading_day(weekday)
  /\ ~LateStartCheck
  /\ clock < IdleFrom

\* Inside the two polling windows an iteration that gets the same answers as
\* the one before changes nothing but the clock.  Runs of such iterations are
\* folded: from the third minute of a window the clock moves on to the end of
\* it (the last two minutes of Phase 2, the last minute of the monitoring), at
\* either half minute.
Fold(t) ==
  IF HM(8, 37) <= t /\ t < HM(8, 56) THEN {HM(8, 56), HM(8, 56) + 1}
  ELSE IF HM(9, 2) <= t /\ t < HM(9, 58) THEN {HM(9, 58), HM(9, 58) + 1}
  ELSE {Min(t, IdleFrom)}

\* the rest of an iteration that called the methods in names, sent orders to
\* the broker and took elapsed half minutes until the next one
EndIteration(names, elapsed, orders) ==
  /\ called' = names
  /\ last_orders' = orders
  /\ today' = today \cup (names \cap SingleShot)
  /\ clock' \in Fold(clock + elapsed)
  /\ weekday' = weekday
  /\ pc' = pc
  /\ sessions' = sessions
  /\ UNCHANGED bench

\* the same, for an iteration that adds events to the history of the day
EndIterationWith(names, elapsed, orders, events) ==
  /\ called' = names
  /\ last_orders' = orders
  /\ today' = today \cup (names \cap SingleShot) \cup events
  /\ clock' \in Fold(clock + elapsed)
  /\ weekday' = weekday
  /\ pc' = pc
  /\ sessions' = sessions
  /\ UNCHANGED bench

\* an exception that ends run_forever instead of being caught
ExceptionEndsLoop(names) ==
  /\ called' = names \cup {"exception"}
  /\ last_orders' = <<>>
  /\ today' = today
  /\ clock' = clock
  /\ weekday' = weekday
  /\ pc' = "exited"
  /\ sessions' = sessions
  /\ UNCHANGED bench

\* except Exception of run_forever: the methods in names were entered, one
\* of them raised; the loop sleeps 60 seconds and goes on
ExceptionCaught(names) ==
  EndIteration(names \cup {"exception"}, COOLDOWN, <<>>)

\* the iterations from here to the next morning change nothing: the clock
\* is taken to 08:26 of the next day and the history of the day is closed
NextMorning ==
  /\ is_trading_day((weekday + 1) % 7) => sessions < MaxSessions
  /\ sessions' = sessions + (IF is_trading_day((weekday + 1) % 7) THEN 1 ELSE 0)
  /\ weekday' = (weekday + 1) % 7
  /\ clock' \in {WindowStart, WindowStart + 1}
  /\ cache' = [cache EXCEPT !.today = FALSE]
  /\ today' = {}
  /\ last_orders' = <<>>
  /\ pc' = pc
  /\ UNCHANGED <<engine, sleep_announced, last_monitor_time, bench>>

\* the minutes of a non-trading day at which the loop is looked at: the ones
\* of the reset, of the buy orders and of the closing
WeekendTicks == {RESET_TIME * 2, BUY_TIME * 2, PHASE5_TIME * 2}

\* not a trading day: wait_mode and continue, whatever the time of day; the
\* iterations between two of the minutes above and the ones up to the next
\* morning are taken together
NonTradingDay ==
  /\ pc = "loop"
  /\ ~is_trading_day(weekday)
  /\ called' = {"wait_mode"}
  /\ \/ /\ \E t \in WeekendTicks : clock < t /\ clock' = t
        /\ last_orders' = <<>>
        /\ UNCHANGED <<weekday, pc, sessions, today, engine, sleep_announced,
                       last_monitor_time, cache, bench>>
     \/ NextMorning

\* the late start check fires: break
LateStart ==
  /\ pc = "loop"
  /\ is_trading_day(weekday)
  /\ LateStartCheck
  /\ pc' = "exited"
  /\ called' = {"late_start"}
  /\ last_orders' = <<>>
  /\ today' = today \cup
        (IF called = {} THEN {"late_start"} ELSE {})
  /\ UNCHANGED <<weekday, clock, engine, sleep_announced, last_monitor_time,
                 cache, sessions, bench>>

\* after 10:01 with phase0 still set: enter_sleep_mode does nothing, and
\* after midnight wait_mode does nothing
IdleUntilNextDay ==
  /\ pc = "loop"
  /\ is_trading_day(weekday)
  /\ ~LateStartCheck
  /\ clock = IdleFrom
  /\ called' = {"enter_sleep_mode", "wait_mode"}
  /\ NextMorning

\* before 08:28: wait_mode, which sleeps 30 seconds itself
WaitMode ==
  /\ Dispatch
  /\ current_time < RESET_TIME
  /\ EndIteration({"wait_mode"}, 2, <<>>)
  /\ UNCHANGED <<engine, sleep_announced, last_monitor_time, cache>>

\* 08:31 .. 08:34: no branch matches
NoWindow ==
  /\ Dispatch
  /\ PHASE1_TIME < current_time /\ current_time < PHASE2_TIME
  /\ EndIteration({}, 1, <<>>)
  /\ UNCHANGED <<engine, sleep_announced, last_monitor_time, cache>>

\* daily_reset leaving the Phase4Position object and its positions in place
DailyResetKeepsPositions ==
  /\ Dispatch
  /\ current_time = RESET_TIME
  /\ auth' = FALSE
  /\ api' = FALSE
  /\ past_data' = {}
  /\ selected_stocks' = <<>>
  /\ phase4_report' = EmptyReport
  /\ phase2_instance' = Absent
  /\ phase_completed' = {}
  /\ EndIteration({"daily_reset"}, 1, <<>>)
  /\ UNCHANGED <<phase4_instance, sleep_announced, last_monitor_time, cache>>

\* 08:28: daily_reset
DailyReset ==
  /\ Dispatch
  /\ current_time = RESET_TIME
  /\ auth' = FALSE
  /\ api' = FALSE
  /\ past_data' = {}
  /\ selected_stocks' = <<>>
  /\ phase4_report' = EmptyReport
  /\ phase2_instance' = Absent
  /\ phase4_instance' = Absent
  /\ phase_completed' = {}
  /\ EndIteration({"daily_reset"}, 1, <<>>)
  /\ UNCHANGED <<sleep_announced, last_monitor_time, cache>>

\* wake_up clearing the flag when the authentication fails
wake_up_flag_cleared(token) ==
  IF token THEN phase_completed \cup {"phase0"}
  ELSE phase_completed \ {"phase0"}

\* wake_up: the flags after Phase0Auth.run answered
wake_up_flag(token) ==
  IF token THEN phase_completed \cup {"phase0"} ELSE phase_completed

\* 08:29: wake_up; token is whether Phase0Auth.run got a token
WakeUp ==
  /\ Dispatch
  /\ current_time = WAKE_TIME
  /\ \E token \in BOOLEAN, d \in 0..MaxDur :
       /\ auth' = token
       /\ api' = token
       /\ phase_completed' = wake_up_flag(token)
       /\ EndIterationWith({"wake_up"}, d + 1, <<>>,
                            IF token THEN {} ELSE {"auth_failed"})
  /\ UNCHANGED <<past_data, selected_stocks, phase4_report, phase2_instance,
                 phase4_instance, sleep_announced, last_monitor_time, cache>>

\* the codes Phase 1 gets a baseline for: none, the first, or all of them
Phase1Results == {{}, {Universe[1]}, Codes}

\* Phase1PastData().run() taking the cache whatever its cache_date
Phase1DataAnyDate(got) == IF cache.data # {} THEN cache.data ELSE got

\* Phase1PastData().run(): the cache of today, or the codes whose fetch
\* succeeded (got), which are cached if there is at least one
Phase1Data(got) == IF cache.today THEN cache.data ELSE got

Phase1Cache(got) ==
  IF cache.today \/ got = {} THEN cache ELSE [today |-> TRUE, data |-> got]

\* the market-data calls of Phase1PastData.run, made when _load_cache finds
\* no cache of today
Phase1Fetch == IF cache.today THEN {} ELSE {"_get_stock_data"}

\* phase1_past_data setting the flag whatever Phase1PastData.run returned
phase1_flag_always(data) == phase_completed \cup {"phase1"}

\* phase1_past_data: the flags after Phase1PastData.run returned data
phase1_flag(data) ==
  IF data # {} THEN phase_completed \cup {"phase1"} ELSE phase_completed

\* 08:30: Phase 1
Phase1 ==
  /\ Dispatch
  /\ current_time = PHASE1_TIME
  /\ IF "phase0" \notin phase_completed
     THEN /\ EndIteration({}, 1, <<>>)
          /\ UNCHANGED <<engine, cache>>
     ELSE IF auth /\ api
     THEN \E got \in Phase1Results, d \in 0..MaxDur :
            /\ past_data' = Phase1Data(got)
            /\ cache' = Phase1Cache(got)
            /\ phase_completed' = phase1_flag(Phase1Data(got))
            /\ EndIteration({"phase1_past_data"} \cup Phase1Fetch, d + 1, <<>>)
            /\ UNCHANGED <<auth, api, selected_stocks, phase4_report,
                           phase2_instance, phase4_instance>>
     ELSE /\ EndIteration({}, 1, <<>>)
          /\ UNCHANGED <<engine, cache>>
  /\ UNCHANGED <<sleep_announced, last_monitor_time>>

\* the Phase2Monitoring object phase2_monitoring works on
Phase2Object ==
  IF phase2_instance = Absent
  THEN [past_data |-> past_data, market_data |-> <<>>]
  ELSE phase2_instance

\* 08:35 .. 08:57: Phase 2 on every iteration
Phase2 ==
  /\ Dispatch
  /\ PHASE2_TIME <= current_time /\ current_time < PHASE3_TIME
  /\ IF "phase1" \notin phase_completed
     THEN /\ phase_completed' = phase_completed \cup {"phase2_warning"}
          /\ EndIteration({}, 1, <<>>)
          /\ UNCHANGED phase2_instance
     ELSE IF auth /\ api /\ past_data # {}
     THEN \E quotes \in [Phase2Object.past_data -> Phase2Quotes],
             d \in 0..MaxDur :
            /\ phase2_instance' =
                 [Phase2Object EXCEPT
                    !.market_data = Phase2Run(Phase2Object.past_data,
                                              Extend(quotes, 0))]
            /\ phase_completed' = phase_completed \cup {"phase2_started"}
            /\ EndIteration({"phase2_monitoring"}, d + 1, <<>>)
     ELSE /\ EndIteration({}, 1, <<>>)
          /\ UNCHANGED <<phase_completed, phase2_instance>>
  /\ UNCHANGED <<auth, api, past_data, selected_stocks, phase4_report,
                 phase4_instance, sleep_announced, last_monitor_time, cache>>

\* phase3_final_selection scoring the whole market_data of Phase 2
Phase3TopUnfiltered ==
  IF phase2_instance = Absent THEN <<>>
  ELSE Phase3Run(phase2_instance.market_data)

\* phase3_final_selection: the top stocks, <<>> when nothing was selected
Phase3Top ==
  IF phase2_instance = Absent THEN <<>>
  ELSE Phase3Run(get_filtered_stocks(phase2_instance.market_data))

\* Phase 3 started whether or not Phase 2 ran
Phase3Unguarded == TRUE

\* the prerequisite of Phase 3
Phase3Guard == "phase2_started" \in phase_completed

\* 08:58: Phase 3
Phase3 ==
  /\ Dispatch
  /\ current_time = PHASE3_TIME
  /\ IF ~Phase3Guard
     THEN /\ EndIteration({}, 1, <<>>)
          /\ UNCHANGED <<phase_completed, selected_stocks, phase4_instance>>
     ELSE IF auth /\ api
     THEN \E d \in 0..MaxDur :
            /\ IF Phase3Top # <<>>
               THEN /\ phase_completed' = phase_completed \cup {"phase3"}
                    /\ selected_stocks' = Phase3Top
                    /\ phase4_instance' = NewPhase4(Phase3Top)
               ELSE UNCHANGED <<phase_completed, selected_stocks,
                                phase4_instance>>
            /\ EndIteration({"phase3_final_selection"}, d + 1, <<>>)
     ELSE /\ EndIteration({}, 1, <<>>)
          /\ UNCHANGED <<phase_completed, selected_stocks, phase4_instance>>
  /\ UNCHANGED <<auth, api, past_data, phase4_report, phase2_instance,
                 sleep_announced, last_monitor_time, cache>>

\* 08:59: Phase 4, the buy branch of phase4_position_management
Phase4Buy ==
  /\ Dispatch
  /\ current_time = BUY_TIME
  /\ IF "phase3" \notin phase_completed
     THEN /\ phase_completed' = phase_completed \cup {"phase4_warning"}
          /\ EndIteration({}, 1, <<>>)
          /\ UNCHANGED phase4_instance
     ELSE IF auth /\ api
     THEN IF phase4_instance = Absent
          THEN /\ ExceptionCaught({"phase4_position_management"})
               /\ UNCHANGED <<phase_completed, phase4_instance>>
          ELSE IF phase4_instance # None /\ "phase4_buy" \notin phase_completed
          THEN \E balance \in Balances,
                  answer \in [TargetCodes(phase4_instance) -> BOOLEAN],
                  d \in 0..MaxDur :
                 LET r == execute_buy_orders(phase4_instance, balance,
                                             [c \in Codes |-> -1],
                                             Extend(answer, FALSE))
                 IN  /\ phase4_instance' = r.inst
                     /\ phase_completed' =
                          IF r.success
                          THEN phase_completed \cup {"phase4_buy", "phase4"}
                          ELSE phase_completed
                     /\ EndIteration({"phase4_position_management",
                                      "execute_buy_orders"}, d + 1, r.orders)
          ELSE /\ EndIteration({"phase4_position_management"}, 1, <<>>)
               /\ UNCHANGED <<phase_completed, phase4_instance>>
     ELSE /\ EndIteration({}, 1, <<>>)
          /\ UNCHANGED <<phase_completed, phase4_instance>>
  /\ UNCHANGED <<auth, api, past_data, selected_stocks, phase4_report,
                 phase2_instance, sleep_announced, last_monitor_time, cache>>

\* what get_stock_balance may answer to monitor_positions, which asks only
\* while it has no position
StockBalances(inst) ==
  IF HasPositions(inst) THEN {NoHoldings} ELSE StockReports

\* the positions monitor_positions sends a sell order for when it gets these
\* quotes: the ones sell_stock answers for
SellCodes(inst, quotes) ==
  {c \in DOMAIN quotes :
     /\ quotes[c] > 0
     /\ \/ RateGE(ProfitRate(quotes[c], inst.positions[c].buy), PROFIT_TARGET)
        \/ RateLE(ProfitRate(quotes[c], inst.positions[c].buy), STOP_LOSS)}

\* (datetime.now() - self.last_monitor_time).seconds at time t
TimeDiff(t) == ((t - last_monitor_time) % DayLen) * 30

\* a monitoring window that includes the minute of Phase 5
MonitorWindowThroughClose ==
  MARKET_OPEN <= current_time /\ current_time <= PHASE5_TIME

\* the minutes in which run_forever takes the monitoring branch
MonitorWindow == MARKET_OPEN <= current_time /\ current_time < PHASE5_TIME

\* 09:00 .. 09:58: Phase 4, the monitoring branch
Phase4Monitor ==
  /\ Dispatch
  /\ MonitorWindow
  /\ IF "phase3" \notin phase_completed
     THEN /\ phase_completed' = phase_completed \cup {"phase4_warning"}
          /\ EndIteration({}, 1, <<>>)
          /\ UNCHANGED <<phase4_instance, last_monitor_time>>
     ELSE IF auth /\ api
     THEN IF phase4_instance = Absent
          THEN /\ ExceptionCaught({"phase4_position_management"})
               /\ UNCHANGED <<phase_completed, phase4_instance,
                              last_monitor_time>>
          ELSE IF phase4_instance = None
          THEN /\ EndIteration({"phase4_position_management"}, 1, <<>>)
               /\ UNCHANGED <<phase_completed, phase4_instance,
                              last_monitor_time>>
          ELSE IF last_monitor_time = NoTime \/ TimeDiff(clock) < MONITOR_GAP
          THEN /\ last_monitor_time' =
                    IF last_monitor_time = NoTime THEN clock
                    ELSE last_monitor_time
               /\ EndIteration({"phase4_position_management"}, 1, <<>>)
               /\ UNCHANGED <<phase_completed, phase4_instance>>
          ELSE \E stocks \in StockBalances(phase4_instance) :
               \E quotes \in [OpenCodes(AdoptHoldings(phase4_instance, stocks))
                                -> MonitorQuotes] :
               \E answer \in [SellCodes(AdoptHoldings(phase4_instance, stocks),
                                         quotes) -> BOOLEAN],
                  d \in 0..MaxDur :
                 LET r == monitor_positions(phase4_instance, stocks,
                                            Extend(quotes, UnaskedQuote),
                                            Extend(answer, FALSE))
                 IN  /\ phase4_instance' = r.inst
                     /\ EndIteration({"phase4_position_management",
                                      "monitor_positions"}, d + 1, r.orders)
                     /\ last_monitor_time' =
                          IF clock' \in Fold(clock + d + 1) \ {clock + d + 1}
                          THEN clock' - 1 ELSE clock + d
                     /\ UNCHANGED phase_completed
     ELSE /\ EndIteration({}, 1, <<>>)
          /\ UNCHANGED <<phase_completed, phase4_instance, last_monitor_time>>
  /\ UNCHANGED <<auth, api, past_data, selected_stocks, phase4_report,
                 phase2_instance, sleep_announced, cache>>

\* 09:59: Phase 5
Phase5 ==
  /\ Dispatch
  /\ current_time = PHASE5_TIME
  /\ IF auth /\ api
     THEN IF phase4_instance = Absent
          THEN /\ ExceptionCaught({"phase5_daily_closing"})
               /\ UNCHANGED <<phase_completed, phase4_report>>
          ELSE \E stocks \in StockReports, accepted \in BOOLEAN,
                  d \in 0..MaxDur :
                 /\ phase4_report' =
                      IF phase4_instance # None
                      THEN get_daily_report(phase4_instance)
                      ELSE phase4_report
                 /\ phase_completed' = phase_completed \cup {"phase5"}
                 /\ EndIteration({"phase5_daily_closing",
                                  "liquidate_all_positions"}, d + 1,
                       liquidate_all_positions(stocks,
                                               [c \in Codes |-> accepted]))
     ELSE /\ EndIteration({}, 1, <<>>)
          /\ UNCHANGED <<phase_completed, phase4_report>>
  /\ UNCHANGED <<auth, api, past_data, selected_stocks, phase2_instance,
                 phase4_instance, sleep_announced, last_monitor_time, cache>>

\* 10:00 and 10:01: enter_sleep_mode
EnterSleepMode ==
  /\ Dispatch
  /\ current_time >= SLEEP_TIME
  /\ IF current_time = SLEEP_TIME
     THEN IF sleep_announced
          THEN UNCHANGED <<engine, sleep_announced>>
          ELSE /\ auth' = FALSE
               /\ api' = FALSE
               /\ past_data' = {}
               /\ selected_stocks' = <<>>
               /\ phase4_report' = EmptyReport
               /\ phase2_instance' = Absent
               /\ phase4_instance' = Absent
               /\ phase_completed' = {}
               /\ sleep_announced' = TRUE
     ELSE /\ sleep_announced' = FALSE
          /\ UNCHANGED engine
  /\ EndIterationWith({"enter_sleep_mode"}, 1, <<>>,
                      IF current_time = SLEEP_TIME /\ ~sleep_announced
                      THEN {"slept"} ELSE {})
  /\ UNCHANGED <<last_monitor_time, cache>>

Next ==
  \/ NonTradingDay
  \/ LateStart
  \/ IdleUntilNextDay
  \/ WaitMode
  \/ NoWindow
  \/ DailyReset
  \/ WakeUp
  \/ Phase1
  \/ Phase2
  \/ Phase3
  \/ Phase4Buy
  \/ Phase4Monitor
  \/ Phase5
  \/ EnterSleepMode

Spec == Init /\ [][Next]_vars

-----------------------------------------------------------------------------
(* The methods of the phases called on their own, on arguments drawn from  *)
(* small sets: Phase2Monitoring.run with get_filtered_stocks,               *)
(* Phase3Scoring.run, Phase4Position.execute_buy_orders and one pass of the *)
(* loop of monitor_positions.                                               *)

\* the codes of the stocks handed to Phase 3 and Phase 4, in list order
Symbols == <<"A", "B", "C", "D", "E">>

\* the longest filtered list handed to Phase3Scoring
MaxCandidates == 4

\* quotes of Phase 2 on both sides of the band and on its two ends
BandQuotes == {0, 101, 102, 103, 104, 105}

\* the change rates (hundredths of a percent) and volumes of filtered stocks
CandidateRates == {200, 300, 400}
CandidateVolumes == {9, 99}

\* a filtered list of n stocks
CandidateLists(n) ==
  {[i \in 1..n |-> [code  |-> Symbols[i],
                    price |-> PriorClose + (f[i][1] \div 100),
                    rate  |-> f[i][1],
                    vol   |-> f[i][2],
                    val   |-> TradedValue]] :
     f \in [1..n -> CandidateRates \X CandidateVolumes]}

\* the prices of the targets of execute_buy_orders (0: no price in the list,
\* the price is asked again), what get_current_price then answers, and what
\* get_balance answers
TargetPrices == {0, 30, 50, 100}
Requotes     == {-1, 60}
Cash         == {-1, 0, 200, 299, 300}

TargetSymbols == {Symbols[i] : i \in 1..TOP_N}

\* target_stocks of n stocks
TargetLists(n) ==
  {[i \in 1..n |-> [code |-> Symbols[i], price |-> f[i]]] :
     f \in [1..n -> TargetPrices]}

\* a Phase4Position with these targets and no position
Phase4With(targets) ==
  [positions     |-> [c \in TargetSymbols |-> NoPos],
   target_stocks |-> targets,
   trade_history |-> <<>>]

\* positions bought at 100 and the quotes a poll gets for them: below, at and
\* above the stop loss (98) and the profit target (104)
PolledPositions ==
  {[qty |-> q, buy |-> 100, cur |-> 100, rate |-> <<0, 1>>, status |-> st] :
     q \in {1, 3}, st \in {Open, ClosedProfit, ClosedLoss}}
PollQuotes == {-1, 0, 97, 98, 99, 100, 103, 104, 105}

CallsOfPhase2 ==
  {[fn |-> "Phase2Monitoring.run", past |-> p, quotes |-> q] :
     p \in SUBSET Codes, q \in [Codes -> BandQuotes]}

CallsOfPhase3 ==
  UNION {{[fn |-> "Phase3Scoring.run", filtered |-> l] :
            l \in CandidateLists(n)} : n \in 0..MaxCandidates}

CallsOfBuy ==
  UNION {{[fn |-> "execute_buy_orders", inst |-> Phase4With(l),
           balance |-> b, requote |-> [c \in TargetSymbols |-> r],
           answer |-> a] :
            l \in TargetLists(n), b \in Cash, r \in Requotes,
            a \in [TargetSymbols -> BOOLEAN]} : n \in 0..TOP_N}

CallsOfPoll ==
  {[fn |-> "monitor_positions", code |-> Symbols[1], position |-> p,
    quote |-> q, accepted |-> a] :
     p \in PolledPositions, q \in PollQuotes, a \in BOOLEAN}

\* passes of monitor_positions over an instance that holds every code: each
\* position Open after an earlier poll at 103, or closed; one quote and one
\* answer of the broker per code
CallsOfPass ==
  {[fn |-> "monitor_positions pass",
    inst |-> [positions |-> [c \in Codes |->
                               [qty |-> 1, buy |-> HeldPrice, cur |-> 103,
                                rate |-> ProfitRate(103, HeldPrice),
                                status |-> st[c]]],
              target_stocks |-> <<>>, trade_history |-> <<>>],
    quotes |-> q, answer |-> a] :
     st \in [Codes -> {Open, ClosedLoss}], q \in [Codes -> MonitorQuotes],
     a \in [Codes -> BOOLEAN]}

\* run() called twice on one Phase3Scoring object
CallsOfPhase3Twice ==
  UNION {{[fn |-> "Phase3Scoring.run twice", filtered |-> l] :
            l \in CandidateLists(n)} : n \in 0..TOP_N}

FnInit ==
  /\ weekday = 4
  /\ clock = WindowStart
  /\ pc = "call"
  /\ auth = FALSE
  /\ api = FALSE
  /\ past_data = {}
  /\ selected_stocks = <<>>
  /\ phase4_report = EmptyReport
  /\ phase_completed = {}
  /\ phase2_instance = Absent
  /\ phase4_instance = None
  /\ sleep_announced = FALSE
  /\ last_monitor_time = NoTime
  /\ cache = NoCache
  /\ sessions = 1
  /\ called = {}
  /\ last_orders = <<>>
  /\ today = {}
  /\ args \in CallsOfPhase2 \cup CallsOfPhase3 \cup CallsOfBuy \cup CallsOfPoll
               \cup CallsOfPass \cup CallsOfPhase3Twice
  /\ returned = NoCall

\* the call returns
Return(value) ==
  /\ pc = "call"
  /\ pc' = "returned"
  /\ returned' = value
  /\ UNCHANGED <<weekday, clock, engine, sleep_announced, last_monitor_time,
                 cache, sessions, called, last_orders, today, args>>

\* Phase2Monitoring(api, past).run(), then get_filtered_stocks()
CallPhase2 ==
  /\ args.fn = "Phase2Monitoring.run"
  /\ LET market_data == Phase2Run(args.past, args.quotes)
     IN  Return([market_data |-> market_data,
                 filtered    |-> get_filtered_stocks(market_data)])

\* Phase3Scoring(filtered).run()
CallPhase3 ==
  /\ args.fn = "Phase3Scoring.run"
  /\ Return([top_stocks |-> Phase3Run(args.filtered)])

\* Phase4Position.execute_buy_orders()
CallBuy ==
  /\ args.fn = "execute_buy_orders"
  /\ Return(execute_buy_orders(args.inst, args.balance, args.requote,
                               args.answer))

\* one pass of the loop of monitor_positions over a position
CallPoll ==
  /\ args.fn = "monitor_positions"
  /\ Return(PollPosition(args.code, args.position, args.quote, args.accepted))

CallPass ==
  /\ args.fn = "monitor_positions pass"
  /\ Return(monitor_positions(args.inst, NoHoldings, args.quotes, args.answer))

CallPhase3Twice ==
  /\ args.fn = "Phase3Scoring.run twice"
  /\ LET first  == Phase3RunOn(<<>>, args.filtered)
          second == Phase3RunOn(first.scored_stocks, args.filtered)
     IN  Return([first         |-> first.top_stocks,
                 second        |-> second.top_stocks,
                 scored_stocks |-> second.scored_stocks])

FnNext ==
  \/ CallPhase2
  \/ CallPhase3
  \/ CallBuy
  \/ CallPoll
  \/ CallPass
  \/ CallPhase3Twice

FnSpec == FnInit /\ [][FnNext]_vars

-----------------------------------------------------------------------------
(* scheduler.py: DailyScheduler.run, the single-session variant.  pc is the *)
(* place in run, clock the time of day in half minutes, today the methods   *)
(* that have been called.                                                    *)

\* wait_until(hour, minute): the time after it (no wait when it has passed)
wait_until(t) == Max(clock, t * 2)

\* cron starts the scheduler at 08:25; a start by hand may come later
SchedulerInit ==
  /\ weekday = 4
  /\ clock \in {HM(8, 25), HM(8, 40), HM(9, 10)}
  /\ pc = "phase0"
  /\ auth = FALSE
  /\ api = FALSE
  /\ past_data = {}
  /\ selected_stocks = <<>>
  /\ phase4_report = EmptyReport
  /\ phase_completed = {}
  /\ phase2_instance = Absent
  /\ phase4_instance = None
  /\ sleep_announced = FALSE
  /\ last_monitor_time = NoTime
  /\ cache \in {NoCache, StaleCache}
  /\ sessions = 1
  /\ called = {}
  /\ last_orders = <<>>
  /\ today = {}
  /\ args = NoCall
  /\ returned = NoCall

\* run goes on to the place next, having called the methods in names, at
\* time t
SchedulerStep(next, names, t) ==
  /\ pc' = next
  /\ called' = names
  /\ today' = today \cup names
  /\ clock' = t
  /\ UNCHANGED <<weekday, phase4_report, phase_completed, phase4_instance,
                 sleep_announced, last_monitor_time, sessions, last_orders,
                 bench>>

\* 08:29: phase0_auth; run returns when it fails
SchedulerPhase0 ==
  /\ pc = "phase0"
  /\ \E token \in BOOLEAN :
       /\ auth' = token
       /\ api' = token
       /\ SchedulerStep(IF token THEN "phase1" ELSE "returned",
                        {"phase0_auth"}, wait_until(WAKE_TIME))
  /\ UNCHANGED <<past_data, selected_stocks, phase2_instance, cache>>

\* 08:30: phase1_past_data; what Phase1PastData.run returned is not tested
SchedulerPhase1 ==
  /\ pc = "phase1"
  /\ \E got \in Phase1Results, d \in 0..MaxDur :
       /\ past_data' = Phase1Data(got)
       /\ cache' = Phase1Cache(got)
       /\ SchedulerStep("phase2", {"phase1_past_data"},
                        wait_until(PHASE1_TIME) + d)
  /\ UNCHANGED <<auth, api, selected_stocks, phase2_instance>>

\* 08:35 .. 08:57: one iteration of the while loop, phase2.run() and
\* time.sleep(10), on the Phase2Monitoring object made from self.past_data
SchedulerPhase2 ==
  /\ pc = "phase2"
  /\ wait_until(PHASE2_TIME) < PHASE3_TIME * 2
  /\ \E quotes \in [Codes -> Phase2Quotes], d \in 0..MaxDur :
       /\ phase2_instance' =
            [past_data   |-> past_data,
             market_data |-> Phase2Run(past_data, quotes)]
       /\ SchedulerStep("phase2", {"Phase2Monitoring.run"},
                        wait_until(PHASE2_TIME) + d + 1)
  /\ UNCHANGED <<auth, api, past_data, selected_stocks, cache>>

\* 08:58: phase3_final_selection on get_filtered_stocks of the object
SchedulerPhase3 ==
  /\ pc = "phase2"
  /\ wait_until(PHASE2_TIME) >= PHASE3_TIME * 2
  /\ LET filtered == IF phase2_instance = Absent THEN <<>>
                     ELSE get_filtered_stocks(phase2_instance.market_data)
     IN  selected_stocks' = IF filtered # <<>> THEN Phase3Run(filtered)
                            ELSE <<>>
  /\ SchedulerStep("phase4", {"phase3_final_selection"},
                   wait_until(PHASE3_TIME))
  /\ UNCHANGED <<auth, api, past_data, phase2_instance, cache>>

\* 09:00 .. 09:58: the while loop of phase4_position_management and
\* time.sleep(5); the iterations of one half minute are taken together
SchedulerPhase4 ==
  /\ pc = "phase4"
  /\ wait_until(MARKET_OPEN) < PHASE5_TIME * 2
  /\ SchedulerStep("phase4", {"phase4_position_management"},
                   wait_until(MARKET_OPEN) + 1)
  /\ UNCHANGED <<auth, api, past_data, selected_stocks, phase2_instance,
                 cache>>

\* 09:59: phase5_daily_closing, and run returns
SchedulerPhase5 ==
  /\ pc = "phase4"
  /\ wait_until(MARKET_OPEN) >= PHASE5_TIME * 2
  /\ SchedulerStep("returned", {"phase5_daily_closing"},
                   wait_until(PHASE5_TIME))
  /\ UNCHANGED <<auth, api, past_data, selected_stocks, phase2_instance,
                 cache>>

SchedulerNext ==
  \/ SchedulerPhase0
  \/ SchedulerPhase1
  \/ SchedulerPhase2
  \/ SchedulerPhase3
  \/ SchedulerPhase4
  \/ SchedulerPhase5

SchedulerSpec == SchedulerInit /\ [][SchedulerNext]_vars

-----------------------------------------------------------------------------
(* Properties of the phase engine *)

\* the position the engine holds for a code, NoPos when it has no
\* Phase4Position object
PositionOf(inst, code) ==
  IF inst = None \/ inst = Absent THEN NoPos ELSE inst.positions[code]

Closed == {ClosedProfit, ClosedLoss}

\* the codes of the orders of a sequence that method by sent
OrderCodes(orders, by) ==
  {orders[i].code : i \in {j \in 1..Len(orders) : orders[j].by = by}}

\* the orders of a sequence that method by sent for a code
OrdersFor(orders, by, code) ==
  {i \in 1..Len(orders) : orders[i].by = by /\ orders[i].code = code}

Phase1to5 == {"phase1_past_data", "phase2_monitoring",
              "phase3_final_selection", "phase4_position_management",
              "phase5_daily_closing"}

C3_ClosedOnlyWhenSold ==
  [][ \A code \in Codes :
        /\ (\E i \in OrdersFor(last_orders', "monitor_positions", code) :
               ~last_orders'[i].ok)
             => PositionOf(phase4_instance', code).status = Open
        /\ PositionOf(phase4_instance', code).status \in Closed
             => \E i \in 1..Len(phase4_instance'.trade_history) :
                   phase4_instance'.trade_history[i].code = code
    ]_vars

C6_ProfitExitOnce ==
  [][ "monitor_positions" \in called' =>
        \A code \in Codes :
          LET before == PositionOf(phase4_instance, code)
              after  == PositionOf(phase4_instance', code)
              sells  == OrdersFor(last_orders', "monitor_positions", code)
          IN  /\ ( /\ before.status \notin Closed
                   /\ after # NoPos
                   /\ RateGE(after.rate, PROFIT_TARGET) )
                 => /\ after.status = ClosedProfit
                    /\ Cardinality(sells) = 1
                    /\ \A i \in sells :
                          /\ last_orders'[i].side = "sell"
                          /\ last_orders'[i].qty = after.qty
                          /\ last_orders'[i].order_type = MARKET
              /\ before.status = ClosedProfit
                 => sells = {} /\ after = before
    ]_vars

\* a poll has closed a position at the profit target, and a later poll has
\* passed it by
C6_ClosedAtTarget ==
  /\ "monitor_positions" \in called
  /\ \E code \in Codes :
       /\ PositionOf(phase4_instance, code).status = ClosedProfit
       /\ OrdersFor(last_orders, "monitor_positions", code) = {}

\* C7: the loop of run_forever does not end because a phase failed: after
\* the authentication of Phase 0 has failed at 08:29 it is still running.
C7_LoopSurvivesAuthFailure ==
  "auth_failed" \in today => pc = "loop"

\* C8: the cycle repeats without a restart: after enter_sleep_mode has reset
\* the engine at 10:00 the loop of run_forever is still running.
C8_LoopSurvivesSleep ==
  "slept" \in today => pc = "loop"

\* C9: once the authentication of Phase 0 has failed, phase0 stays unset, no
\* action of Phases 1 to 5 is called and no order is sent for the rest of
\* the day.
C9_AuthFailureEndsDay ==
  [][ "auth_failed" \in today =>
        /\ "phase0" \notin phase_completed'
        /\ called' \cap Phase1to5 = {}
        /\ last_orders' = <<>>
    ]_vars

\* C10: when the first iteration of the loop on a trading day finds the time
\* after 08:29 and phase0 unset, run_forever ends there: that iteration calls
\* no phase action and sends no order, and no iteration follows it.
C10_LateStartFailsClosed ==
  [][ /\ pc = "loop"
      /\ ( /\ called = {}
           /\ is_trading_day(weekday)
           /\ current_time > WAKE_TIME
           /\ "phase0" \notin phase_completed )
         => /\ pc' = "exited"
            /\ called' \cap (Phase1to5 \cup {"wake_up", "daily_reset"}) = {}
            /\ last_orders' = <<>>
            /\ phase_completed' = phase_completed
    ]_vars

\* the engine was started late on a trading day and has ended
C10_StartedLate ==
  /\ "late_start" \in today
  /\ pc = "exited"
  /\ current_time > WAKE_TIME

\* the single-minute windows of the timetable
TriggerMinutes == {RESET_TIME, WAKE_TIME, PHASE1_TIME, PHASE3_TIME, BUY_TIME,
                   PHASE5_TIME}

\* C11: on a trading day no iteration of the loop carries the clock from
\* before a single-minute window (08:28, 08:29, 08:30, 08:58, 08:59, 09:59)
\* to after it: every such minute has an iteration that observes it, however
\* long the action or the cooldown of the iteration before took.
C11_NoWindowMissed ==
  [][ (pc = "loop" /\ is_trading_day(weekday) /\ weekday' = weekday) =>
        \A t \in TriggerMinutes :
           ~(current_time < t /\ clock' \div 2 > t)
    ]_vars

\* the codes of a list of stocks
CodesOf(stocks) == {stocks[i].code : i \in 1..Len(stocks)}

\* the band-filtered list of the last Phase 2 iteration
Phase2Filtered ==
  IF phase2_instance = Absent THEN <<>>
  ELSE get_filtered_stocks(phase2_instance.market_data)

Indicated(t) ==
  IF t < RESET_TIME THEN {"wait_mode"}
  ELSE IF t = RESET_TIME THEN {"daily_reset"}
  ELSE IF t = WAKE_TIME THEN {"wake_up"}
  ELSE IF t = PHASE1_TIME THEN {"phase1_past_data", "_get_stock_data"}
  ELSE IF PHASE2_TIME <= t /\ t < PHASE3_TIME THEN {"phase2_monitoring"}
  ELSE IF t = PHASE3_TIME THEN {"phase3_final_selection"}
  ELSE IF t = BUY_TIME
       THEN {"phase4_position_management", "execute_buy_orders"}
  ELSE IF MARKET_OPEN <= t /\ t < PHASE5_TIME
       THEN {"phase4_position_management", "monitor_positions"}
  ELSE IF t = PHASE5_TIME
       THEN {"phase5_daily_closing", "liquidate_all_positions"}
  ELSE IF t >= SLEEP_TIME THEN {"enter_sleep_mode", "wait_mode"}
  ELSE {}

\* C13: an iteration in which a phase action raises leaves the loop running
\* and every field of the engine as it was, sends no order, and the next
\* iteration comes 60 seconds later; that next iteration does not end the
\* loop and calls nothing but what the timetable gives for the minute it
\* reads.
C13_ExceptionThenResume ==
  [][ /\ "exception" \in called'
        => /\ pc' = "loop"
           /\ clock' = clock + COOLDOWN
           /\ weekday' = weekday
           /\ engine' = engine
           /\ <<sleep_announced', last_monitor_time', cache'>>
                = <<sleep_announced, last_monitor_time, cache>>
           /\ last_orders' = <<>>
      /\ "exception" \in called
        => /\ pc' = "loop"
           /\ called' \subseteq Indicated(current_time) \cup {"exception"}
    ]_vars

\* phase5_daily_closing has raised at 09:59 and the loop is at 10:00
C13_CaughtAtClosing ==
  /\ called = {"phase5_daily_closing", "exception"}
  /\ pc = "loop"
  /\ current_time = SLEEP_TIME
  /\ "phase0" \in phase_completed

\* the actions of the timetable that are to run once a day
OncePerDay == {"daily_reset", "wake_up", "phase1_past_data",
               "phase3_final_selection", "phase5_daily_closing",
               "liquidate_all_positions"}

\* C14: daily_reset, wake_up, Phase 1, Phase 3 and Phase 5 (with its sweep
\* and its report) are each called at most once per trading day; in
\* particular none of them is called by two iterations of the loop that
\* follow one another on the same day.
C14_SingleShotOnce ==
  [][ weekday' = weekday =>
        \A m \in OncePerDay : m \in called' => m \notin called ]_vars

\* C15: an iteration of the loop that observes 09:59 on a trading day with
\* phase0 set runs phase5_daily_closing to its end: the sweep and the report
\* are done, nothing is raised and phase5 is set, whether or not Phase 3
\* selected anything and whether or not the day began with daily_reset.
C15_ClosingCompletes ==
  [][ ( /\ pc = "loop"
        /\ is_trading_day(weekday)
        /\ current_time = PHASE5_TIME
        /\ "phase0" \in phase_completed )
      => /\ "phase5_daily_closing" \in called'
         /\ "liquidate_all_positions" \in called'
         /\ "exception" \notin called'
         /\ "phase5" \in phase_completed'
    ]_vars

\* C16: when daily_reset has run, past_data is empty, selected_stocks and
\* phase4_report are empty, there is no Phase 2 and no Phase 4 instance (so
\* no position), auth and api are cleared and no flag of phase_completed is
\* set, the sub-flags phase4_buy and the warnings included; and a Phase 1
\* that finds no cache of today returns only baselines it fetched and cached
\* today, never those of a cache of an earlier day.
C16_ResetClearsTheDay ==
  [][ /\ "daily_reset" \in called'
        => /\ past_data' = {}
           /\ selected_stocks' = <<>>
           /\ phase4_report' = EmptyReport
           /\ phase2_instance' = Absent
           /\ phase4_instance' = Absent
           /\ ~auth' /\ ~api'
           /\ phase_completed' = {}
      /\ ("phase1_past_data" \in called' /\ ~cache.today)
        => /\ past_data' \in Phase1Results
           /\ past_data' # {} => cache' = [today |-> TRUE, data |-> past_data']
    ]_vars

\* daily_reset has run on the Monday after a trading day that left a
\* baseline in the cache
C16_ResetOnSecondDay ==
  /\ called = {"daily_reset"}
  /\ sessions = 2
  /\ ~cache.today /\ cache.data \in Phase1Results \ {{}}
  /\ past_data = {}
  /\ phase4_instance = Absent
  /\ last_monitor_time # NoTime

\* C17: a position that is Closed (ClosedProfit or ClosedLoss) is not Open
\* again on the same day: until the Phase4Position object is discarded it
\* stays as it is, and an iteration that calls monitor_positions leaves it
\* untouched (no new price, no new rate) and sends no order for it.
C17_ClosedStaysClosed ==
  [][ \A code \in Codes :
        LET before == PositionOf(phase4_instance, code)
            after  == PositionOf(phase4_instance', code)
        IN  (before.status \in Closed /\ weekday' = weekday)
            => /\ after.status # Open
               /\ after = before \/ phase4_instance' = Absent
               /\ "monitor_positions" \in called'
                    => /\ after = before
                       /\ OrdersFor(last_orders', "monitor_positions", code)
                            = {}
    ]_vars

\* a poll has passed by a position that an earlier poll closed at the stop
\* loss
C17_StoppedOutEarlier ==
  /\ "monitor_positions" \in called
  /\ \E code \in Codes :
       /\ PositionOf(phase4_instance, code).status = ClosedLoss
       /\ OrdersFor(last_orders, "monitor_positions", code) = {}

\* C18: once phase5_daily_closing was called on a day, no iteration of the
\* loop calls monitor_positions again on that day.
C18_NoPollAfterClosing ==
  [][ "monitor_positions" \in called' => "phase5_daily_closing" \notin today
    ]_vars

\* Phase 5 has swept on a day on which a poll closed a position
C18_ClosingAfterPolls ==
  /\ "phase5_daily_closing" \in called
  /\ "phase5_daily_closing" \in today
  /\ last_monitor_time # NoTime
  /\ \E code \in Codes : PositionOf(phase4_instance, code).status \in Closed

Phase2to4 == {"phase2_monitoring", "phase3_final_selection",
              "phase4_position_management"}

C20_SameDayCacheOnly ==
  [][ "phase1_past_data" \in called' =>
        /\ cache.today
             => /\ "_get_stock_data" \notin called'
                /\ past_data' = cache.data
                /\ cache' = cache
        /\ ~cache.today
             => /\ "_get_stock_data" \in called'
                /\ past_data' # {}
                     => cache' = [today |-> TRUE, data |-> past_data']
        /\ cache' # cache
             => /\ past_data' # {}
                /\ cache'.today
                /\ cache'.data = past_data'
    ]_vars

\* Phase 1 has returned the cache that an earlier Phase 1 of the same day
\* wrote
C20_CacheReused ==
  /\ called = {"phase1_past_data"}
  /\ cache.today
  /\ cache.data # {}
  /\ past_data = cache.data
  /\ "phase1" \in phase_completed

\* the codes with a baseline and an answered quote whose change against the
\* close of the day before lies in [MIN_RATE, MAX_RATE], computed exactly
PassSet(past, quotes) ==
  {c \in past :
     /\ quotes[c] # 0
     /\ MIN_RATE * PriorClose <= (quotes[c] - PriorClose) * 10000
     /\ (quotes[c] - PriorClose) * 10000 <= MAX_RATE * PriorClose}

C22_PassSetCapped ==
  (pc = "returned" /\ args.fn = "Phase2Monitoring.run") =>
     Len(returned.filtered) < Len(Universe)

\* the place of a code in a list of stocks
PlaceOf(stocks, code) == CHOOSE k \in 1..Len(stocks) : stocks[k].code = code

\* stock a of the list ranks before stock b: a higher total score, or the
\* same score and an earlier place in the list
RanksBefore(stocks, a, b) ==
  \/ TotalScore(a, stocks) > TotalScore(b, stocks)
  \/ /\ TotalScore(a, stocks) = TotalScore(b, stocks)
     /\ PlaceOf(stocks, a.code) < PlaceOf(stocks, b.code)

\* C23: for a filtered list of n stocks a new Phase3Scoring returns min(3, n)
\* of them with their total scores, in descending order of total score with
\* equal scores in the order of the input, every stock left out ranking
\* behind every stock returned; a second Phase3Scoring on the same list
\* returns the same list.
C23_TopThreeInOrder ==
  (pc = "returned" /\ args.fn = "Phase3Scoring.run") =>
     LET stocks == args.filtered
         top    == returned.top_stocks
     IN  /\ Len(top) = Min(3, Len(stocks))
         /\ CodesOf(top) \subseteq CodesOf(stocks)
         /\ \A i \in 1..Len(top) :
              LET a == stocks[PlaceOf(stocks, top[i].code)]
              IN  /\ top[i].total = TotalScore(a, stocks)
                  /\ \A j \in 1..Len(top) :
                       i < j => RanksBefore(stocks, a,
                                   stocks[PlaceOf(stocks, top[j].code)])
                  /\ \A k \in 1..Len(stocks) :
                       stocks[k].code \notin CodesOf(top)
                         => RanksBefore(stocks, a, stocks[k])
         /\ Phase3Run(stocks) = top

\* Phase 3 has returned three of four stocks, the third one tied with the
\* one left out and standing before it in the input
C23_TieAtTheCut ==
  /\ pc = "returned"
  /\ args.fn = "Phase3Scoring.run"
  /\ Len(args.filtered) = 4
  /\ Len(returned.top_stocks) = 3
  /\ \E k \in 1..4 :
       /\ args.filtered[k].code \notin CodesOf(returned.top_stocks)
       /\ TotalScore(args.filtered[k], args.filtered)
            = returned.top_stocks[3].total
       /\ returned.top_stocks[1].total > returned.top_stocks[3].total

\* C24: when every stock of the list Phase 3 scores has the same volume, the
\* volume sub-score of each of them is the neutral 50 (0.5 of 100).
C24_EqualVolumesNeutral ==
  ( /\ pc = "returned"
    /\ args.fn = "Phase3Scoring.run"
    /\ \A i, j \in 1..Len(args.filtered) :
          args.filtered[i].vol = args.filtered[j].vol )
  => \A i \in 1..Len(args.filtered) :
        VolumeScore(args.filtered[i], args.filtered) = 5000

\* the price execute_buy_orders uses for target i: the one of the list, or
\* the one it asks for when the list has none (0 when it gets none)
PriceUsed(i) ==
  IF args.inst.target_stocks[i].price > 0 THEN args.inst.target_stocks[i].price
  ELSE Max(args.requote[args.inst.target_stocks[i].code], 0)

\* C25: with cash > 0 and N targets the budget per stock is the largest b
\* with b * N <= cash, and the quantity ordered for a target of price p is
\* the largest q with q * p <= b; a target gets an order, one, exactly if
\* that q is above 0.  Cash 300 and prices 100, 50, 30 give the quantities
\* 1, 2, 3.
C25_FloorSplit ==
  (pc = "returned" /\ args.fn = "execute_buy_orders" /\ args.balance > 0
     /\ args.inst.target_stocks # <<>>) =>
     LET targets == args.inst.target_stocks
         N == Len(targets)
         b == CHOOSE x \in 0..args.balance :
                x * N <= args.balance /\ args.balance < (x + 1) * N
         orders == returned.orders
     IN  /\ \A i \in 1..N :
              LET mine == OrdersFor(orders, "execute_buy_orders",
                                    targets[i].code)
              IN  IF PriceUsed(i) > 0 /\ PriceUsed(i) <= b
                  THEN /\ Cardinality(mine) = 1
                       /\ \A k \in mine :
                            /\ orders[k].side = "buy"
                            /\ orders[k].qty > 0
                            /\ orders[k].qty * PriceUsed(i) <= b
                            /\ b < (orders[k].qty + 1) * PriceUsed(i)
                  ELSE mine = {}
         /\ Len(orders) <= N
         /\ ( /\ args.balance = 300
              /\ [i \in 1..N |-> targets[i].price] = <<100, 50, 30>> )
            => [k \in 1..Len(orders) |-> orders[k].qty] = <<1, 2, 3>>

\* cash 300 was split over targets at 100, 50 and 30 and the three orders
\* were sent
C25_ThreeHundredOverThree ==
  /\ pc = "returned"
  /\ args.fn = "execute_buy_orders"
  /\ args.balance = 300
  /\ [i \in 1..Len(args.inst.target_stocks) |->
        args.inst.target_stocks[i].price] = <<100, 50, 30>>
  /\ [k \in 1..Len(returned.orders) |-> returned.orders[k].qty] = <<1, 2, 3>>

\* C26: on a trading day, from 08:58 on, while the list the last Phase 2
\* iteration left inside the band is empty, the selection stays empty, phase3
\* stays unset, execute_buy_orders is not called and no buy order is sent.
C26_NothingFilteredNothingBought ==
  [][ ( /\ pc = "loop"
        /\ is_trading_day(weekday)
        /\ current_time >= PHASE3_TIME
        /\ Phase2Filtered = <<>>
        /\ weekday' = weekday )
      => /\ selected_stocks' = <<>>
         /\ "phase3" \notin phase_completed'
         /\ "execute_buy_orders" \notin called'
         /\ \A i \in 1..Len(last_orders') : last_orders'[i].side # "buy"
    ]_vars

\* Phase 3 has run on quotes that were all outside the band and has selected
\* nothing
C26_EmptySelection ==
  /\ "phase3_final_selection" \in called
  /\ phase2_instance # Absent
  /\ phase2_instance.market_data # <<>>
  /\ Phase2Filtered = <<>>
  /\ selected_stocks = <<>>
  /\ "phase3" \notin phase_completed

\* the return of the polled position in percent times the buy price, from the
\* quote of the poll
Gain == (args.quote - args.position.buy) * 100

\* C27: a poll of an Open position that got a quote sends, at a return of the
\* stop-loss rate or below, one market sell of the whole recorded quantity and
\* marks the position ClosedLoss; strictly between the two rates it sends
\* nothing and leaves the position Open; at the profit rate or above it marks
\* ClosedProfit; no poll sends more than one order.
C27_ThresholdsOfAPoll ==
  ( /\ pc = "returned"
    /\ args.fn = "monitor_positions"
    /\ args.position.status = Open
    /\ args.quote > 0 )
  => /\ Len(returned.orders) <= 1
     /\ Gain <= STOP_LOSS * args.position.buy
          => /\ returned.orders =
                  <<Order("sell", args.code, args.position.qty, MARKET,
                          "monitor_positions", args.accepted)>>
             /\ returned.position.status = ClosedLoss
     /\ ( /\ Gain > STOP_LOSS * args.position.buy
          /\ Gain < PROFIT_TARGET * args.position.buy )
          => /\ returned.orders = <<>>
             /\ returned.position.status = Open
     /\ Gain >= PROFIT_TARGET * args.position.buy
          => /\ Len(returned.orders) = 1
             /\ returned.position.status = ClosedProfit

\* a poll at exactly the stop-loss rate has sold three shares
C27_SoldAtTheStopLoss ==
  /\ pc = "returned"
  /\ args.fn = "monitor_positions"
  /\ args.position.status = Open
  /\ args.position.qty = 3
  /\ Gain = STOP_LOSS * args.position.buy
  /\ Len(returned.orders) = 1
  /\ returned.orders[1].qty = 3
  /\ returned.position.status = ClosedLoss

\* the targets of the call that reach a quantity above 0
Affordable ==
  {i \in 1..Len(args.inst.target_stocks) :
     /\ PriceUsed(i) > 0
     /\ BuyQuantity(args.balance \div Len(args.inst.target_stocks),
                    PriceUsed(i)) > 0}

\* C28: whatever the broker answers to the other orders, every target with a
\* quantity above 0 gets its buy order, in the order of the list, and after
\* the call a position is Open for exactly the targets whose order the broker
\* took.
C28_RejectionDoesNotStopTheBatch ==
  (pc = "returned" /\ args.fn = "execute_buy_orders" /\ args.balance > 0
     /\ args.inst.target_stocks # <<>>) =>
     LET targets == args.inst.target_stocks
         orders  == returned.orders
     IN  /\ Len(orders) = Cardinality(Affordable)
         /\ \A i \in Affordable :
              LET k == Cardinality({j \in Affordable : j <= i})
              IN  /\ orders[k].code = targets[i].code
                  /\ orders[k].side = "buy"
                  /\ orders[k].ok = args.answer[targets[i].code]
         /\ \A c \in TargetSymbols :
              returned.inst.positions[c].status = Open
                <=> \E i \in Affordable :
                      targets[i].code = c /\ args.answer[c]
         /\ \A c \in TargetSymbols :
              returned.inst.positions[c].status \in {Open, NoPos.status}

\* the order of the first target was rejected, the orders of the second and
\* the third were sent and taken, and only those two have a position
C28_RejectedThenAccepted ==
  /\ pc = "returned"
  /\ args.fn = "execute_buy_orders"
  /\ Len(returned.orders) = 3
  /\ ~returned.orders[1].ok
  /\ returned.orders[2].ok
  /\ returned.orders[3].ok
  /\ returned.inst.positions[returned.orders[1].code] = NoPos
  /\ returned.inst.positions[returned.orders[2].code].status = Open
  /\ returned.inst.positions[returned.orders[3].code].status = Open

\* market_data is what one run of Phase2Monitoring.run builds from one quote
\* per symbol
OneIteration(inst) ==
  \E quotes \in [Codes -> Phase2Quotes] :
    inst.market_data = Phase2Run(inst.past_data, quotes)

C30_PollOnTheFirstTick ==
  [][ ( /\ pc = "loop"
        /\ is_trading_day(weekday)
        /\ MonitorWindow
        /\ "phase3" \in phase_completed
        /\ auth /\ api
        /\ phase4_instance \notin {None, Absent}
        /\ last_monitor_time = NoTime
        /\ weekday' = weekday )
      => "monitor_positions" \in called'
    ]_vars

\* C31: a call of execute_buy_orders with no target, with a failed balance
\* lookup or with cash <= 0 sends no order, leaves the instance (its
\* positions included) as it was and returns False, the value on which
\* phase4_position_management sets neither phase4_buy nor phase4.
C31_NothingToBuyWith ==
  ( /\ pc = "returned"
    /\ args.fn = "execute_buy_orders"
    /\ \/ args.inst.target_stocks = <<>>
       \/ args.balance <= 0 )
  => /\ returned.orders = <<>>
     /\ returned.inst = args.inst
     /\ \A c \in TargetSymbols : returned.inst.positions[c] = NoPos
     /\ returned.success = FALSE

\* three targets with prices and a broker that would take every order, but
\* no cash: the call has returned without an order
C31_ThreeTargetsNoCash ==
  /\ pc = "returned"
  /\ args.fn = "execute_buy_orders"
  /\ Len(args.inst.target_stocks) = TOP_N
  /\ \A i \in 1..TOP_N : args.inst.target_stocks[i].price > 0
  /\ \A c \in TargetSymbols : args.answer[c]
  /\ args.balance = 0
  /\ returned.orders = <<>>
  /\ ~returned.success

\* C32: on Saturday and on Sunday, at whatever time of day, an iteration of
\* the loop calls wait_mode and nothing else: no flag, session object, phase
\* instance or report changes, no order is sent, and the loop goes on.
C32_WeekendOnlyWaits ==
  [][ ( pc = "loop" /\ weekday \in {5, 6} )
      => /\ called' = {"wait_mode"}
         /\ UNCHANGED engine
         /\ last_orders' = <<>>
         /\ UNCHANGED <<sleep_announced, last_monitor_time>>
         /\ pc' = "loop"
    ]_vars

\* Saturday 08:28, the minute of daily_reset: the loop has waited and the
\* flags of Friday are still set
C32_SaturdayAtResetTime ==
  /\ weekday = 5
  /\ clock = RESET_TIME * 2
  /\ called = {"wait_mode"}
  /\ pc = "loop"
  /\ phase_completed # {}

\* the windows of run_forever that match the time of this iteration
WindowsNow ==
  [reset      |-> current_time = RESET_TIME,
   wake       |-> current_time = WAKE_TIME,
   phase1     |-> current_time = PHASE1_TIME,
   phase2     |-> PHASE2_TIME <= current_time /\ current_time < PHASE3_TIME,
   phase3     |-> current_time = PHASE3_TIME,
   buy        |-> current_time = BUY_TIME,
   monitoring |-> MonitorWindow,
   phase5     |-> current_time = PHASE5_TIME,
   sleep      |-> current_time >= SLEEP_TIME]

\* the method run_forever calls in each window
ActionOf ==
  [reset      |-> "daily_reset",
   wake       |-> "wake_up",
   phase1     |-> "phase1_past_data",
   phase2     |-> "phase2_monitoring",
   phase3     |-> "phase3_final_selection",
   buy        |-> "phase4_position_management",
   monitoring |-> "phase4_position_management",
   phase5     |-> "phase5_daily_closing",
   sleep      |-> "enter_sleep_mode"]

C34_NoQuoteNoChange ==
  ( pc = "returned" /\ args.fn = "monitor_positions pass" )
  => \A c \in Codes :
       LET before == args.inst.positions[c]
           after  == returned.inst.positions[c]
       IN  /\ ( before.status = Open /\ args.quotes[c] <= 0 )
              => /\ after = before
                 /\ \A k \in 1..Len(returned.orders) :
                       returned.orders[k].code # c
           /\ ( before.status = Open /\ args.quotes[c] > 0 )
              => /\ after.cur = args.quotes[c]
                 /\ after.rate = ProfitRate(args.quotes[c], before.buy)

\* the first position got no quote and is as it was, the second was polled
\* after it and sold at the profit target
C34_SecondStillPolled ==
  /\ pc = "returned"
  /\ args.fn = "monitor_positions pass"
  /\ \A c \in Codes : args.inst.positions[c].status = Open
  /\ args.quotes[Universe[1]] = -1
  /\ args.quotes[Universe[2]] = 108
  /\ returned.inst.positions[Universe[1]] = args.inst.positions[Universe[1]]
  /\ returned.inst.positions[Universe[2]].status = ClosedProfit
  /\ Len(returned.orders) = 1

\* C35: in DailyScheduler.run, once phase1_past_data has run and left no
\* baseline data, none of Phase 2, Phase 3, Phase 4 and Phase 5 is executed.
C35_NoDataAbortsTheDay ==
  ( "phase1_past_data" \in today /\ past_data = {} )
  => today \cap {"Phase2Monitoring.run", "phase3_final_selection",
                 "phase4_position_management", "phase5_daily_closing"} = {}

\* C36: while the phase0 flag is set, the auth and the api object are both
\* present.
C36_Phase0MeansSession ==
  "phase0" \in phase_completed => auth /\ api

\* C37: a position appears only in an iteration that calls
\* execute_buy_orders, and every sell order an iteration sends is for a code
\* the engine held a position for before that iteration, on a day on which
\* execute_buy_orders was called.
C37_SellsOnlyWhatItBought ==
  [][ /\ \A c \in Codes :
           ( PositionOf(phase4_instance, c) = NoPos
             /\ PositionOf(phase4_instance', c) # NoPos )
           => "execute_buy_orders" \in called'
      /\ \A k \in 1..Len(last_orders') :
           last_orders'[k].side = "sell"
           => /\ PositionOf(phase4_instance, last_orders'[k].code) # NoPos
              /\ "execute_buy_orders" \in today
    ]_vars

\* C38: after execute_buy_orders with cash > 0 and N targets, every position
\* it recorded costs, at the price the quantity was computed from, at most
\* cash div N; so does every order it sent, and the orders together cost at
\* most the cash.
C38_NeverMoreThanTheCash ==
  (pc = "returned" /\ args.fn = "execute_buy_orders" /\ args.balance > 0
     /\ args.inst.target_stocks # <<>>) =>
     LET targets == args.inst.target_stocks
         N       == Len(targets)
         share   == args.balance \div N
         QtyOf(i) ==
           LET mine == {k \in 1..Len(returned.orders) :
                          returned.orders[k].code = targets[i].code}
           IN  IF i > N \/ mine = {} THEN 0
               ELSE returned.orders[CHOOSE k \in mine : TRUE].qty
         Cost(i) == IF i > N THEN 0 ELSE QtyOf(i) * PriceUsed(i)
     IN  /\ N \in 1..TOP_N
         /\ \A i \in 1..N :
              /\ Cost(i) <= share
              /\ returned.inst.positions[targets[i].code] # NoPos
                   => /\ returned.inst.positions[targets[i].code].qty
                           * returned.inst.positions[targets[i].code].buy
                         <= share
                      /\ returned.inst.positions[targets[i].code].buy
                           = PriceUsed(i)
         /\ Cost(1) + Cost(2) + Cost(3) <= args.balance

\* cash 299 over three targets, a share of 99 each: three orders were taken
\* and every position costs 90 or more of its share
C38_NearlyAllCommitted ==
  /\ pc = "returned"
  /\ args.fn = "execute_buy_orders"
  /\ args.balance = 299
  /\ Len(returned.orders) = TOP_N
  /\ \A k \in 1..TOP_N : returned.orders[k].ok
  /\ \A c \in TargetSymbols :
       /\ returned.inst.positions[c].status = Open
       /\ returned.inst.positions[c].qty * returned.inst.positions[c].buy > 89

\* C39: the report Phase 5 took from get_daily_report counts as many profit
\* exits as there are positions in status ClosedProfit and as many loss exits
\* as there are positions in status ClosedLoss.
C39_ReportCountsTheClosed ==
  ( phase4_report.set /\ phase4_instance \notin {None, Absent} )
  => /\ phase4_report.profit =
          Cardinality({c \in Codes :
                         phase4_instance.positions[c].status = ClosedProfit})
     /\ phase4_report.loss =
          Cardinality({c \in Codes :
                         phase4_instance.positions[c].status = ClosedLoss})

\* C40: run() called a second time on the same Phase3Scoring object returns
\* the top list the first call returned, and no code is twice in
\* scored_stocks or in the top list.
C40_RunTwiceSameTop ==
  ( pc = "returned" /\ args.fn = "Phase3Scoring.run twice" )
  => /\ returned.second = returned.first
     /\ Len(returned.scored_stocks)
          = Cardinality(CodesOf(returned.scored_stocks))
     /\ Len(returned.second) = Cardinality(CodesOf(returned.second))

====
